---- MODULE Spec2Model ----
(***************************************************************************)
(* Model of the input-to-protocol pipeline of the assembler0 simulator     *)
(* front-end: the transport session (services/websocket.ts), the gamepad   *)
(* send wrapper with its outbound queue (services/gamepadService.ts) and   *)
(* the command throttler (hooks/useGamepadControl.ts).                     *)
(*                                                                         *)
(* Sockets carry no identity beyond what the code can observe: a session   *)
(* holds the socket its `ws` field references plus the bag of sockets it   *)
(* created earlier that are still alive (their handlers still point at the *)
(* session).  A closed socket that nothing references can produce no more  *)
(* events and is dropped.                                                  *)
(***************************************************************************)
EXTENDS Integers, Sequences, FiniteSets, Bags, TLC

VARIABLES
    sessions,                 \* every SimulatorWebSocket constructed so far
    globalWebSocketInstance,  \* 0 (null) or the index of a session
    mounted,                  \* the App effect is mounted (cleanup not yet run)
    urlOk,                    \* new WebSocket(url) does not throw for this page
    messageQueue,             \* gamepadService.messageQueue
    isProcessingQueue,        \* gamepadService.isProcessingQueue
    wire,                     \* every frame handed to ws.send that did not throw
    nextMsg,                  \* id of the next message object a caller builds
    lastCall,                 \* history: the last send call and what it met
    lastUpdateTime,           \* useGamepadControl: lastUpdateTime.current
    previousState,            \* useGamepadControl: previousState.current, <<>> for null
    lastTick,                 \* history: the last effect run and what it did
    config,                   \* useGamepad: the GamepadConfig it is called with
    gamepads,                 \* navigator.getGamepads(): the slots holding a device
    events,                   \* gamepadconnected/-disconnected events not yet dispatched
    gamepadIndex,             \* useGamepad: gamepadIndex.current
    gamepadState,             \* useGamepad: the gamepadState it returns
    animationFrameId,         \* useGamepad: animationFrameId.current
    frames,                   \* requested animation frames not yet run or cancelled
    listening,                \* useGamepad: the effect is mounted, its listeners registered
    lastStep                  \* history: the last step of the poller or its devices

sessionVars  == <<sessions, globalWebSocketInstance, mounted, urlOk>>
serviceVars  == <<messageQueue, isProcessingQueue, wire, nextMsg, lastCall>>
pollerVars   == <<config, gamepads, events, gamepadIndex, gamepadState,
                  animationFrameId, frames, listening, lastStep>>
throttleVars == <<lastUpdateTime, previousState, lastTick, pollerVars>>
vars == <<sessions, globalWebSocketInstance, mounted, urlOk, messageQueue,
          isProcessingQueue, wire, nextMsg, lastCall, lastUpdateTime,
          previousState, lastTick, config, gamepads, events, gamepadIndex,
          gamepadState, animationFrameId, frames, listening, lastStep>>

----------------------------------------------------------------------------
(* Bounds of the model *)

MaxSessions == 2     \* App effects run (React.StrictMode runs the effect twice)
MaxOrphans  == 1     \* live sockets a session no longer references
MaxTimers   == 2     \* timer ids a session can have outstanding
MaxMsgs     == 3     \* messages callers build

MaxProgramMsgs == 1  \* messages built in the program-level specifications
MaxHandlers == 2     \* observers registered with onMessage
MaxSlots    == 2     \* slots of navigator.getGamepads()
MaxEvents   == 1     \* gamepad events waiting to be dispatched
MaxFrames   == 2     \* animation frame ids in use at a time
Epoch       == 1000  \* the earliest Date.now() reading of a run, in ms

(* Program constants *)

RECONNECT_DELAY == 1000

CONTROL_UPDATE_RATE == 60

----------------------------------------------------------------------------
(* Sockets *)

NoSocket == [state |-> "null", initial |-> FALSE]

Live(sock) == sock.state \in {"CONNECTING", "OPEN", "CLOSING"}

IsOpen(sock) == sock.state = "OPEN"

BagAdd(B, e) == B (+) SetToBag({e})

BagRemove(B, e) == B (-) SetToBag({e})

(* History of the last message event of a session: whether its payload    *)
(* parsed, the observers invoked for it in order, the position of the      *)
(* observer that raised (0: none), and whether the message event before it *)
(* carried a payload that did not parse.                                   *)
NoInbound ==
    [seen |-> FALSE, wellFormed |-> FALSE, invoked |-> <<>>, raised |-> 0,
     afterMalformed |-> FALSE]

(* The state after `new SimulatorWebSocket(url)`: no socket, no timer, no  *)
(* observer, no connect() call yet.  Three fields are history: tornDown,   *)
(* disconnect() has been called; replaced, the last scheduleReconnect()    *)
(* cancelled a timer that was still pending; inbound, the last message     *)
(* event.  Observers are named by their position of registration.          *)
NewSession ==
    [ws               |-> NoSocket,
     orphans          |-> EmptyBag,
     reconnectTimeout |-> 0,
     pendingTimers    |-> {},
     messageHandlers  |-> <<>>,
     promise          |-> "none",
     replaced         |-> FALSE,
     tornDown         |-> FALSE,
     inbound          |-> NoInbound]

(* onMessage(handler) *)
OnMessage(S) == [S EXCEPT !.messageHandlers = Append(@, Len(@) + 1)]

(* ws.onmessage, the variant that hands the payload to the observers       *)
(* without parsing it.                                                     *)
OnMessageEventUnparsed(S, wellFormed, r) ==
    [S EXCEPT !.inbound =
        [seen |-> TRUE, wellFormed |-> wellFormed,
         invoked |-> IF r = 0 THEN S.messageHandlers
                     ELSE SubSeq(S.messageHandlers, 1, r),
         raised |-> r,
         afterMalformed |-> S.inbound.seen /\ ~S.inbound.wellFormed]]

(* ws.onmessage for a payload that parses or not; r is the position of the *)
(* first observer that raises on this message (0: none does).  JSON.parse  *)
(* and the forEach over the observers share one try block: a payload that  *)
(* does not parse reaches no observer, and an observer that raises ends    *)
(* the forEach.                                                            *)
OnMessageEvent(S, wellFormed, r) ==
    [S EXCEPT !.inbound =
        [seen |-> TRUE, wellFormed |-> wellFormed,
         invoked |-> IF ~wellFormed THEN <<>>
                     ELSE IF r = 0 THEN S.messageHandlers
                     ELSE SubSeq(S.messageHandlers, 1, r),
         raised |-> IF wellFormed THEN r ELSE 0,
         afterMalformed |-> S.inbound.seen /\ ~S.inbound.wellFormed]]

(* Promise settlement: only the first settlement of a promise has effect.  *)
(* The session tracks the promise of its first connect() call, the one the *)
(* App observes; sock.initial marks the socket whose handlers close over   *)
(* it.                                                                     *)
Resolve(S, sock) ==
    IF sock.initial /\ S.promise = "pending"
    THEN [S EXCEPT !.promise = "resolved"] ELSE S

(* reject(error), the variant that settles a settled promise again. *)
RejectSettled(S, sock) ==
    IF sock.initial /\ S.promise # "none"
    THEN [S EXCEPT !.promise = "rejected"] ELSE S

Reject(S, sock) ==
    IF sock.initial /\ S.promise = "pending"
    THEN [S EXCEPT !.promise = "rejected"] ELSE S

(* connect(): a new socket replaces this.ws; the socket this.ws referenced *)
(* keeps its handlers, so it stays with the session while it is alive.     *)
(* When the constructor throws, the catch rejects and this.ws is kept.     *)
Connect(S, ok) ==
    LET first == S.promise = "none" IN
    IF ~ok
    THEN [S EXCEPT !.promise = IF first THEN "rejected" ELSE @]
    ELSE [S EXCEPT
            !.ws      = [state |-> "CONNECTING", initial |-> first],
            !.orphans = IF Live(S.ws) THEN BagAdd(@, S.ws) ELSE @,
            !.promise = IF first THEN "pending" ELSE @]

CanConnect(S) == Live(S.ws) => BagCardinality(S.orphans) < MaxOrphans

(* window.setTimeout returns an id it has not handed out before: none of a *)
(* pending timer, and not the one the session still remembers.             *)
FreeTimerIds(S) ==
    (1..MaxTimers) \ ({t.id : t \in S.pendingTimers} \cup {S.reconnectTimeout})

IsPending(S, id) == \E t \in S.pendingTimers : t.id = id

FreshTimerId(S) == CHOOSE i \in FreeTimerIds(S) : \A j \in FreeTimerIds(S) : i <= j

(* clearTimeout(id): removes the pending timer with that id, if any. *)
ClearTimeout(pending, id) == {t \in pending : t.id # id}

(* scheduleReconnect(), the repeated-timer variant: the pending timer is   *)
(* not cancelled before a new one is set.                                  *)
ScheduleReconnectNoClear(S) ==
    LET id == FreshTimerId(S) IN
    [S EXCEPT !.pendingTimers    = @ \cup {[id |-> id, delay |-> RECONNECT_DELAY]},
              !.reconnectTimeout = id,
              !.replaced         = FALSE]

(* scheduleReconnect(): cancel the timer this.reconnectTimeout names, then *)
(* set a new one and remember its id.                                      *)
ScheduleReconnect(S) ==
    LET cleared == IF S.reconnectTimeout # 0
                   THEN [S EXCEPT !.pendingTimers = ClearTimeout(@, S.reconnectTimeout)]
                   ELSE S
        id == FreshTimerId(S)
    IN  [cleared EXCEPT
            !.pendingTimers    = @ \cup {[id |-> id, delay |-> RECONNECT_DELAY]},
            !.reconnectTimeout = id,
            !.replaced         = IsPending(S, S.reconnectTimeout)]

CanSchedule(S) == FreeTimerIds(S) # {}

(* ws.onclose, the variant that forgets to schedule the reconnect. *)
OnCloseNoReconnect(S) == S

(* ws.onclose *)
OnClose(S) == ScheduleReconnect(S)

(* ws.onerror *)
OnError(S, sock) == Reject(S, sock)

(* ws.onopen *)
OnOpen(S, sock) == Resolve(S, sock)

(* A timer that fired, the setInterval variant: it stays pending. *)
AfterFireRepeating(pending, t) == pending

(* A setTimeout timer fires once: it is no longer pending afterwards. *)
AfterFire(pending, t) == pending \ {t}

(* ws.close(), the variant in which a close() on a closing socket ends the *)
(* closing handshake at once.                                              *)
CloseAbrupt(sock) ==
    IF sock.state \in {"CONNECTING", "OPEN"}
    THEN [sock EXCEPT !.state = "CLOSING"]
    ELSE IF sock.state = "CLOSING"
         THEN [sock EXCEPT !.state = "CLOSED"] ELSE sock

(* ws.close(): a connecting or open socket starts closing; the close event *)
(* comes later.  Closing or closed sockets are left alone.                 *)
Close(sock) ==
    IF sock.state \in {"CONNECTING", "OPEN"}
    THEN [sock EXCEPT !.state = "CLOSING"] ELSE sock

(* disconnect() *)
Disconnect(S) ==
    LET cleared == IF S.reconnectTimeout # 0
                   THEN [S EXCEPT !.pendingTimers = ClearTimeout(@, S.reconnectTimeout)]
                   ELSE S
    IN  [cleared EXCEPT
            !.ws       = IF S.ws.state # "null" THEN Close(S.ws) ELSE @,
            !.tornDown = TRUE]

(* The sockets of a session that can still produce events. *)
LiveSockets(S) ==
    (IF Live(S.ws) THEN {[ref |-> TRUE, sock |-> S.ws]} ELSE {})
    \cup {[ref |-> FALSE, sock |-> o] : o \in BagToSet(S.orphans)}

(* The session after socket x moved to readyState st (CLOSED sockets that  *)
(* this.ws does not reference are dropped).                                *)
WithState(S, x, st) ==
    IF x.ref
    THEN [S EXCEPT !.ws.state = st]
    ELSE [S EXCEPT !.orphans =
            IF st = "CLOSED" THEN BagRemove(@, x.sock)
            ELSE BagAdd(BagRemove(@, x.sock), [x.sock EXCEPT !.state = st])]

----------------------------------------------------------------------------
(* The App effect (App.tsx) and the events of the transport session *)

SessionIds == 1..Len(sessions)

(* App.tsx useEffect body: construct the session (the constructor makes it *)
(* the global instance), register the observer, call connect().            *)
Mount ==
    /\ ~mounted
    /\ Len(sessions) < MaxSessions
    /\ sessions' = Append(sessions, Connect(OnMessage(NewSession), urlOk))
    /\ globalWebSocketInstance' = Len(sessions) + 1
    /\ mounted' = TRUE
    /\ UNCHANGED <<urlOk, serviceVars, throttleVars>>

(* App.tsx useEffect cleanup: websocket.disconnect() on the session the    *)
(* effect constructed.                                                     *)
Unmount ==
    /\ mounted
    /\ sessions' = [sessions EXCEPT ![Len(sessions)] = Disconnect(@)]
    /\ mounted' = FALSE
    /\ UNCHANGED <<globalWebSocketInstance, urlOk, serviceVars, throttleVars>>

(* The open event, the variant whose onopen flushes the outbound queue. *)
SocketOpensFlushing(s) ==
    /\ s \in SessionIds
    /\ \E x \in LiveSockets(sessions[s]) :
          /\ x.sock.state = "CONNECTING"
          /\ sessions' = [sessions EXCEPT ![s] =
                            OnOpen(WithState(@, x, "OPEN"), x.sock)]
    /\ wire' = wire \o [i \in 1..Len(messageQueue) |->
                           [kind |-> "gamepad_control", id |-> messageQueue[i]]]
    /\ messageQueue' = <<>>
    /\ UNCHANGED <<globalWebSocketInstance, mounted, urlOk, isProcessingQueue,
                   nextMsg, lastCall, throttleVars>>

(* The open event of a connecting socket: readyState OPEN, then onopen. *)
SocketOpens(s) ==
    /\ s \in SessionIds
    /\ \E x \in LiveSockets(sessions[s]) :
          /\ x.sock.state = "CONNECTING"
          /\ sessions' = [sessions EXCEPT ![s] =
                            OnOpen(WithState(@, x, "OPEN"), x.sock)]
    /\ UNCHANGED <<globalWebSocketInstance, mounted, urlOk, serviceVars, throttleVars>>

(* A clean close (by the peer, or completing ws.close()): readyState       *)
(* CLOSED, then onclose.                                                   *)
SocketCloses(s) ==
    /\ s \in SessionIds
    /\ CanSchedule(sessions[s])
    /\ \E x \in LiveSockets(sessions[s]) :
          /\ x.sock.state \in {"OPEN", "CLOSING"}
          /\ sessions' = [sessions EXCEPT ![s] =
                            OnClose(WithState(@, x, "CLOSED"))]
    /\ UNCHANGED <<globalWebSocketInstance, mounted, urlOk, serviceVars, throttleVars>>

(* A failed connection (refused, dropped): readyState CLOSED, then the     *)
(* error event and the close event, in that order.                         *)
SocketFails(s) ==
    /\ s \in SessionIds
    /\ CanSchedule(sessions[s])
    /\ \E x \in LiveSockets(sessions[s]) :
          sessions' = [sessions EXCEPT ![s] =
                         OnClose(OnError(WithState(@, x, "CLOSED"), x.sock))]
    /\ UNCHANGED <<globalWebSocketInstance, mounted, urlOk, serviceVars, throttleVars>>

(* The callback scheduleReconnect() handed to setTimeout: this.connect(). *)
ReconnectTimerFires(s) ==
    /\ s \in SessionIds
    /\ CanConnect(sessions[s])
    /\ \E t \in sessions[s].pendingTimers :
          sessions' = [sessions EXCEPT ![s] =
                         Connect([@ EXCEPT !.pendingTimers = AfterFire(@, t)], urlOk)]
    /\ UNCHANGED <<globalWebSocketInstance, mounted, urlOk, serviceVars, throttleVars>>

SessionEvent ==
    \E s \in 1..MaxSessions :
        \/ SocketOpens(s)
        \/ SocketCloses(s)
        \/ SocketFails(s)
        \/ ReconnectTimerFires(s)

----------------------------------------------------------------------------
(* types/gamepad.ts and the state of hooks/useGamepad.ts before its effect *)
(* runs.  The poller holds analog values as exact fractions of thousandths *)
(* (num / den thousandths, in lowest terms, den > 0).                      *)

Abs(v) == IF v < 0 THEN -v ELSE v

RECURSIVE GCD(_, _)
GCD(a, b) == IF b = 0 THEN a ELSE GCD(b, a % b)

Rat(n, d) ==
    LET g == GCD(Abs(n), d) IN [num |-> n \div g, den |-> d \div g]

Zero == Rat(0, 1)

ButtonNames ==
    {"a", "b", "x", "y", "lb", "rb", "back", "start", "leftStickButton",
     "rightStickButton", "dpadUp", "dpadDown", "dpadLeft", "dpadRight", "home"}

(* A GamepadState: sticks <<lx, ly, rx, ry>>, triggers <<lt, rt>>, and the *)
(* set of pressed buttons.                                                 *)
Snapshot(connected, sticks, triggers, pressed) ==
    [connected  |-> connected,
     leftStick  |-> [x |-> sticks[1], y |-> sticks[2]],
     rightStick |-> [x |-> sticks[3], y |-> sticks[4]],
     lt         |-> triggers[1],
     rt         |-> triggers[2],
     buttons    |-> [b \in ButtonNames |-> b \in pressed]]

DEFAULT_GAMEPAD_CONFIG ==
    [deadzone    |-> 100,
     sensitivity |-> [leftStick |-> 1000, rightStick |-> 1000, triggers |-> 1000],
     invertY     |-> FALSE]

(* gamepadIndex.current and animationFrameId.current holding null. *)
NoIndex == -1
NoFrame == 0

NoStep == [op |-> "none", index |-> NoIndex, bound |-> NoIndex, raw |-> <<>>,
           lost |-> NoIndex]

(* useState / useRef initial values of useGamepad. *)
PollerIdle ==
    /\ config = DEFAULT_GAMEPAD_CONFIG
    /\ gamepads = {}
    /\ events = <<>>
    /\ gamepadIndex = NoIndex
    /\ gamepadState = Snapshot(FALSE, <<Zero, Zero, Zero, Zero>>, <<Zero, Zero>>, {})
    /\ animationFrameId = NoFrame
    /\ frames = {}
    /\ listening = FALSE
    /\ lastStep = NoStep

----------------------------------------------------------------------------
(* Initial values of the module-level state of gamepadService.ts and of    *)
(* the refs of useGamepadControl.                                          *)

NoCall == [op |-> "none", id |-> 0, open |-> FALSE, queued |-> 0,
           drainFail |-> 0, sendFail |-> FALSE, raised |-> FALSE]

NoTick == [now |-> 0, connected |-> FALSE, hasMovement |-> FALSE,
           sent |-> FALSE, command |-> <<>>, snapshot |-> <<>>]

ServiceInit ==
    /\ messageQueue = <<>>
    /\ isProcessingQueue = FALSE
    /\ wire = <<>>
    /\ nextMsg = 1
    /\ lastCall = NoCall

ThrottleInit ==
    /\ lastUpdateTime = 0
    /\ previousState = <<>>
    /\ lastTick = NoTick
    /\ PollerIdle

(* The program: the App mounts and unmounts its effect; sockets open,      *)
(* close and fail; reconnect timers fire.                                  *)
Init ==
    /\ sessions = <<>>
    /\ globalWebSocketInstance = 0
    /\ mounted = FALSE
    /\ urlOk \in BOOLEAN
    /\ ServiceInit
    /\ ThrottleInit

Next == Mount \/ Unmount \/ SessionEvent

Spec == Init /\ [][Next]_vars

(* The scheduler runs every pending timer callback: a reconnect timer that *)
(* stays pending fires.                                                    *)
FairSpec ==
    Spec /\ \A s \in 1..MaxSessions : WF_vars(ReconnectTimerFires(s))

----------------------------------------------------------------------------
(* The class used by an arbitrary caller: one constructed session whose    *)
(* public connect() and disconnect() are called at any time.               *)

CallerConnect(s) ==
    /\ s \in SessionIds
    /\ CanConnect(sessions[s])
    /\ sessions' = [sessions EXCEPT ![s] = Connect(@, urlOk)]
    /\ UNCHANGED <<globalWebSocketInstance, mounted, urlOk, serviceVars, throttleVars>>

CallerDisconnect(s) ==
    /\ s \in SessionIds
    /\ sessions' = [sessions EXCEPT ![s] = Disconnect(@)]
    /\ UNCHANGED <<globalWebSocketInstance, mounted, urlOk, serviceVars, throttleVars>>

InitApi ==
    /\ sessions = <<NewSession>>
    /\ globalWebSocketInstance = 1
    /\ mounted = TRUE
    /\ urlOk \in BOOLEAN
    /\ ServiceInit
    /\ ThrottleInit

NextApi == CallerConnect(1) \/ CallerDisconnect(1) \/ SessionEvent

SpecApi == InitApi /\ [][NextApi]_vars

----------------------------------------------------------------------------
(* The inbound path: a connected session whose caller registers observers  *)
(* at any time; its open or closing sockets receive messages.              *)

CallerOnMessage(s) ==
    /\ s \in SessionIds
    /\ Len(sessions[s].messageHandlers) < MaxHandlers
    /\ sessions' = [sessions EXCEPT ![s] = OnMessage(@)]
    /\ UNCHANGED <<globalWebSocketInstance, mounted, urlOk, serviceVars, throttleVars>>

(* The message event of a socket of the session. *)
SocketMessage(s) ==
    /\ s \in SessionIds
    /\ \E x \in LiveSockets(sessions[s]) :
          /\ x.sock.state \in {"OPEN", "CLOSING"}
          /\ \E wellFormed \in BOOLEAN,
                r \in 0..Len(sessions[s].messageHandlers) :
                sessions' = [sessions EXCEPT ![s] = OnMessageEvent(@, wellFormed, r)]
    /\ UNCHANGED <<globalWebSocketInstance, mounted, urlOk, serviceVars, throttleVars>>

InitInbound ==
    /\ urlOk \in BOOLEAN
    /\ sessions = <<Connect(NewSession, urlOk)>>
    /\ globalWebSocketInstance = 1
    /\ mounted = TRUE
    /\ ServiceInit
    /\ ThrottleInit

NextInbound == CallerOnMessage(1) \/ SocketMessage(1) \/ SessionEvent

SpecInbound == InitInbound /\ [][NextInbound]_vars


----------------------------------------------------------------------------
(* gamepadService.ts: the send wrapper and its queue.  A message object is *)
(* named by the id its caller gave it; the wire records the frames ws.send *)
(* accepted, in order.                                                     *)

Frame(kind, id) == [kind |-> kind, id |-> id]

(* getWebSocketConnection(), the variant that keeps to the session         *)
(* constructed first.                                                      *)
getWebSocketConnectionFirst ==
    IF globalWebSocketInstance = 0
    THEN NoSocket
    ELSE sessions[1].ws

(* getWebSocketConnection(): the socket of the global session, or null. *)
getWebSocketConnection ==
    IF globalWebSocketInstance = 0
    THEN NoSocket
    ELSE sessions[globalWebSocketInstance].ws

(* messageQueue.unshift(message), the variant that loses the message. *)
UnshiftDropped(q, message) == q

(* messageQueue.unshift(message), the variant that pushes at the tail. *)
UnshiftAtTail(q, message) == Append(q, message)

(* messageQueue.unshift(message) *)
Unshift(q, message) == <<message>> \o q

(* messageQueue.shift(), the variant that pops the newest message. *)
ShiftNewest(q) == [message |-> q[Len(q)], rest |-> SubSeq(q, 1, Len(q) - 1)]

(* messageQueue.shift() *)
Shift(q) == [message |-> Head(q), rest |-> Tail(q)]

(* The while loop of processMessageQueue, the variant without the break:   *)
(* the message whose write threw goes back to the head and the loop goes   *)
(* on with the messages behind it.                                         *)
RECURSIVE DrainLoopNoBreak(_, _, _)
DrainLoopNoBreak(q, w, d) ==
    IF Len(q) = 0
    THEN [queue |-> q, wire |-> w]
    ELSE LET sh == Shift(q) IN
         IF d = 1
         THEN LET r == DrainLoopNoBreak(sh.rest, w, 0) IN
              [queue |-> Unshift(r.queue, sh.message), wire |-> r.wire]
         ELSE DrainLoopNoBreak(sh.rest,
                               Append(w, Frame("gamepad_control", sh.message)),
                               IF d = 0 THEN 0 ELSE d - 1)

(* The while loop of processMessageQueue.  d = 0: no write throws; d = k:  *)
(* the k-th write of this drain throws.                                    *)
RECURSIVE DrainLoop(_, _, _)
DrainLoop(q, w, d) ==
    IF Len(q) = 0
    THEN [queue |-> q, wire |-> w]
    ELSE LET sh == Shift(q) IN
         IF d = 1
         THEN [queue |-> Unshift(sh.rest, sh.message), wire |-> w]
         ELSE DrainLoop(sh.rest,
                        Append(w, Frame("gamepad_control", sh.message)),
                        IF d = 0 THEN 0 ELSE d - 1)

(* processMessageQueue(): [queue, wire, processing] when it returns. *)
processMessageQueue(q, w, processing, ws, d) ==
    IF processing \/ Len(q) = 0
    THEN [queue |-> q, wire |-> w, processing |-> processing]
    ELSE IF ws.state = "null" \/ ~IsOpen(ws)
    THEN [queue |-> q, wire |-> w, processing |-> FALSE]
    ELSE LET r == DrainLoop(q, w, d) IN
         [queue |-> r.queue, wire |-> r.wire, processing |-> FALSE]

(* The disconnected branch of sendGamepadControl, the variant that drops   *)
(* the message instead of queueing it.                                     *)
QueueWhileClosedDrops(q, message) == q

(* The disconnected branch of sendGamepadControl: messageQueue.push. *)
QueueWhileClosed(q, message) == Append(q, message)

(* sendGamepadControl(message): [queue, wire, processing] when it returns. *)
(* f: the ws.send of the new message throws.                               *)
(* sendGamepadControl, the variant that never drains the queue. *)
sendGamepadControlNoDrain(message, d, f) ==
    LET ws == getWebSocketConnection IN
    IF ws.state = "null" \/ ~IsOpen(ws)
    THEN [queue      |-> QueueWhileClosed(messageQueue, message),
          wire       |-> wire,
          processing |-> isProcessingQueue]
    ELSE IF f
         THEN [queue |-> Append(messageQueue, message), wire |-> wire,
               processing |-> isProcessingQueue]
         ELSE [queue |-> messageQueue,
               wire |-> Append(wire, Frame("gamepad_control", message)),
               processing |-> isProcessingQueue]

(* sendGamepadControl, the variant that gives up after an aborted drain:   *)
(* the new message is queued without a write being tried.                  *)
sendGamepadControlQueuesAfterAbort(message, d, f) ==
    LET ws == getWebSocketConnection IN
    IF ws.state = "null" \/ ~IsOpen(ws)
    THEN [queue      |-> QueueWhileClosed(messageQueue, message),
          wire       |-> wire,
          processing |-> isProcessingQueue]
    ELSE LET drained ==
                IF Len(messageQueue) > 0 /\ ~isProcessingQueue
                THEN processMessageQueue(messageQueue, wire, isProcessingQueue, ws, d)
                ELSE [queue |-> messageQueue, wire |-> wire,
                      processing |-> isProcessingQueue]
         IN  IF f \/ Len(drained.queue) > 0
             THEN [drained EXCEPT !.queue = Append(@, message)]
             ELSE [drained EXCEPT !.wire = Append(@, Frame("gamepad_control", message))]

sendGamepadControl(message, d, f) ==
    LET ws == getWebSocketConnection IN
    IF ws.state = "null" \/ ~IsOpen(ws)
    THEN [queue      |-> QueueWhileClosed(messageQueue, message),
          wire       |-> wire,
          processing |-> isProcessingQueue]
    ELSE LET drained ==
                IF Len(messageQueue) > 0 /\ ~isProcessingQueue
                THEN processMessageQueue(messageQueue, wire, isProcessingQueue, ws, d)
                ELSE [queue |-> messageQueue, wire |-> wire,
                      processing |-> isProcessingQueue]
         IN  IF f
             THEN [drained EXCEPT !.queue = Append(@, message)]
             ELSE [drained EXCEPT !.wire = Append(@, Frame("gamepad_control", message))]

(* The write attempts a call can meet: a drain of n messages has n writes, *)
(* and nothing is written (so nothing throws) while the socket is not open.*)
ThrowChoices ==
    IF IsOpen(getWebSocketConnection)
    THEN {[d |-> d, f |-> f] : d \in 0..Len(messageQueue), f \in BOOLEAN}
    ELSE {[d |-> 0, f |-> FALSE]}

(* A caller hands a new message to sendGamepadControl.  Every ws.send of   *)
(* the wrapper sits in a try block, so the call never raises.              *)
GamepadSend ==
    /\ nextMsg <= MaxMsgs
    /\ \E c \in ThrowChoices :
          LET r == sendGamepadControl(nextMsg, c.d, c.f) IN
          /\ messageQueue' = r.queue
          /\ wire' = r.wire
          /\ isProcessingQueue' = r.processing
          /\ lastCall' = [op |-> "sendGamepadControl", id |-> nextMsg,
                          open |-> IsOpen(getWebSocketConnection),
                          queued |-> Len(messageQueue),
                          drainFail |-> c.d, sendFail |-> c.f,
                          raised |-> FALSE]
    /\ nextMsg' = nextMsg + 1
    /\ UNCHANGED <<sessionVars, throttleVars>>

(* SimulatorWebSocket.sendControl / sendCamera: the frame is written when  *)
(* this.ws is open and skipped otherwise; a throwing ws.send is not caught.*)
SendIfOpen(S, w, kind, id, f) ==
    IF S.ws.state # "null" /\ IsOpen(S.ws) /\ ~f
    THEN Append(w, Frame(kind, id))
    ELSE w

(* App.handleControlChange / handleCameraChange on the App's session. *)
SessionSend(kind, op) ==
    /\ nextMsg <= MaxMsgs
    /\ Len(sessions) > 0
    /\ LET S == sessions[Len(sessions)] IN
       \E f \in (IF IsOpen(S.ws) THEN BOOLEAN ELSE {FALSE}) :
          /\ wire' = SendIfOpen(S, wire, kind, nextMsg, f)
          /\ lastCall' = [op |-> op, id |-> nextMsg, open |-> IsOpen(S.ws),
                          queued |-> Len(messageQueue),
                          drainFail |-> 0, sendFail |-> f, raised |-> f]
    /\ nextMsg' = nextMsg + 1
    /\ UNCHANGED <<messageQueue, isProcessingQueue, sessionVars, throttleVars>>

ControlSend == SessionSend("control", "sendControl")

CameraSend == SessionSend("camera", "sendCamera")

(* The send paths over one mounted session whose socket opens, closes,     *)
(* fails and reconnects.                                                   *)
InitService ==
    /\ urlOk \in BOOLEAN
    /\ sessions = <<Connect(NewSession, urlOk)>>
    /\ globalWebSocketInstance = 1
    /\ mounted = TRUE
    /\ ServiceInit
    /\ ThrottleInit

NextService == Unmount \/ SessionEvent \/ GamepadSend \/ ControlSend \/ CameraSend

SpecService == InitService /\ [][NextService]_vars

(* The gamepad send path in the program: the App effect constructs and     *)
(* tears down sessions while sendGamepadControl is called at any time.     *)
ProgramGamepadSend == nextMsg <= MaxProgramMsgs /\ GamepadSend

NextProgramSend == Mount \/ Unmount \/ SessionEvent \/ ProgramGamepadSend

SpecProgramSend == Init /\ [][NextProgramSend]_vars

(* The scheduler runs every pending timer callback; nothing obliges a      *)
(* caller to send.                                                         *)
FairService ==
    SpecService /\ \A s \in 1..MaxSessions : WF_vars(ReconnectTimerFires(s))


----------------------------------------------------------------------------
(* hooks/useGamepadControl.ts: the command throttler.  Stick axes and      *)
(* triggers are in thousandths (0.01 is 10, 0.1 is 100, 0.5 is 500), clock *)
(* readings in ms, deltas in units of 1e-5 (thousandths times hundredths). *)

(* The device snapshots the effect is run with. *)
Snapshots ==
    { Snapshot(FALSE, <<0, 0, 0, 0>>,         <<0, 0>>,     {}),
      Snapshot(FALSE, <<700, 0, 0, 0>>,       <<0, 0>>,     {"a"}),
      Snapshot(TRUE,  <<0, 0, 0, 0>>,         <<0, 0>>,     {}),
      Snapshot(TRUE,  <<10, -10, 0, 0>>,      <<100, 100>>, {}),
      Snapshot(TRUE,  <<11, 0, 0, 0>>,        <<0, 0>>,     {}),
      Snapshot(TRUE,  <<0, -500, 0, 0>>,      <<0, 0>>,     {"rb"}),
      Snapshot(TRUE,  <<0, 0, 1000, -1000>>,  <<0, 0>>,     {}),
      Snapshot(TRUE,  <<0, 0, 0, 0>>,         <<101, 0>>,   {}),
      Snapshot(TRUE,  <<0, 0, 0, 0>>,         <<600, 600>>, {}),
      Snapshot(TRUE,  <<0, 0, 0, 0>>,         <<600, 0>>,   {}),
      Snapshot(TRUE,  <<0, 0, 0, 0>>,         <<500, 501>>, {}),
      Snapshot(TRUE,  <<0, 0, 0, 0>>,         <<0, 0>>,     {"a"}),
      Snapshot(TRUE,  <<0, 0, 0, 0>>,         <<0, 0>>,     {"rb"}),
      Snapshot(TRUE,  <<0, 0, 0, 0>>,         <<0, 0>>,     {"dpadLeft", "lb"}) }

(* The Date.now() readings of a run: ms after Epoch.  The wall clock may   *)
(* be set back between two readings.                                       *)
ClockOffsets == {0, 10, 16, 17, 40, 60}

Clock == {Epoch + d : d \in ClockOffsets}

(* now - lastUpdateTime < CONTROL_UPDATE_INTERVAL, the variant that rounds *)
(* the interval 1000 / 60 down to whole milliseconds.                      *)
TooSoonTruncated(now, last) == now - last < 1000 \div CONTROL_UPDATE_RATE

(* now - lastUpdateTime < CONTROL_UPDATE_INTERVAL, the variant without the *)
(* gate.                                                                   *)
TooSoonNever(now, last) == FALSE

(* now - lastUpdateTime < CONTROL_UPDATE_INTERVAL, the interval being      *)
(* 1000 / CONTROL_UPDATE_RATE ms.                                          *)
TooSoon(now, last) == (now - last) * CONTROL_UPDATE_RATE < 1000

hasMovement(g) ==
    \/ Abs(g.leftStick.x) > 10
    \/ Abs(g.leftStick.y) > 10
    \/ Abs(g.rightStick.x) > 10
    \/ Abs(g.rightStick.y) > 10

(* hasGripperInput, the variant that counts a trigger at the threshold.    *)
hasGripperInputInclusive(g) == g.lt >= 100 \/ g.rt >= 100

hasGripperInput(g) == g.lt > 100 \/ g.rt > 100

buttonChanged(g, prev) ==
    \/ g.buttons.a # prev.buttons.a
    \/ g.buttons.x # prev.buttons.x
    \/ g.buttons.y # prev.buttons.y
    \/ g.buttons.rb # prev.buttons.rb

(* speedMultiplier, the variant with the two speeds exchanged. *)
speedMultiplierSwapped(g) == IF g.buttons.rb THEN 15 ELSE 3

(* 0.03 with rb held, 0.15 otherwise, in hundredths. *)
speedMultiplier(g) == IF g.buttons.rb THEN 3 ELSE 15

SentButtons ==
    {"a", "x", "y", "lb", "rb", "dpadUp", "dpadDown", "dpadLeft", "dpadRight"}

(* controlMessage, the variant that tests the left trigger first. *)
controlMessageCloseFirst(g) ==
    [type    |-> "gamepad_control",
     deltas  |-> [x     |-> g.leftStick.x * speedMultiplier(g),
                  y     |-> (-g.leftStick.y) * speedMultiplier(g),
                  z     |-> (-g.rightStick.y) * speedMultiplier(g),
                  wrist |-> g.rightStick.x * speedMultiplier(g)],
     gripper |-> IF g.lt > 500 THEN "close"
                 ELSE IF g.rt > 500 THEN "open"
                 ELSE "stay",
     buttons |-> [b \in SentButtons |-> g.buttons[b]]]

controlMessage(g) ==
    [type    |-> "gamepad_control",
     deltas  |-> [x     |-> g.leftStick.x * speedMultiplier(g),
                  y     |-> (-g.leftStick.y) * speedMultiplier(g),
                  z     |-> (-g.rightStick.y) * speedMultiplier(g),
                  wrist |-> g.rightStick.x * speedMultiplier(g)],
     gripper |-> IF g.rt > 500 THEN "open"
                 ELSE IF g.lt > 500 THEN "close"
                 ELSE "stay",
     buttons |-> [b \in SentButtons |-> g.buttons[b]]]

(* previousState.current after a send, the variant that keeps the older   *)
(* snapshot.                                                               *)
RememberedStale(g) == previousState

(* previousState.current = { ...gamepadState } *)
Remembered(g) == <<g>>

(* The early returns of the effect, the variant without the connected     *)
(* check of lines 16-18.                                                   *)
SuppressedIgnoringConnected(g, now) ==
    \/ TooSoon(now, lastUpdateTime)
    \/ /\ ~hasMovement(g) /\ ~hasGripperInput(g) /\ previousState # <<>>
       /\ ~buttonChanged(g, previousState[1])

(* The early returns of the effect, the variant whose at-rest check does   *)
(* not ask for a previously sent snapshot.                                 *)
SuppressedAtRestFromStart(g, now) ==
    \/ ~g.connected
    \/ TooSoon(now, lastUpdateTime)
    \/ /\ ~hasMovement(g) /\ ~hasGripperInput(g)
       /\ (previousState = <<>> \/ ~buttonChanged(g, previousState[1]))

(* The effect returns before building a command. *)
Suppressed(g, now) ==
    \/ ~g.connected
    \/ TooSoon(now, lastUpdateTime)
    \/ /\ ~hasMovement(g) /\ ~hasGripperInput(g) /\ previousState # <<>>
       /\ ~buttonChanged(g, previousState[1])

(* One run of the useGamepadControl effect with snapshot g, Date.now()     *)
(* reading `now`; c: the throws its sendGamepadControl call meets.         *)
EffectRuns(g, now, c) ==
    IF Suppressed(g, now)
    THEN /\ lastTick' = [now |-> now, connected |-> g.connected,
                         hasMovement |-> hasMovement(g),
                         sent |-> FALSE, command |-> <<>>,
                         snapshot |-> <<g>>]
         /\ UNCHANGED <<lastUpdateTime, previousState, serviceVars>>
    ELSE LET r == sendGamepadControl(nextMsg, c.d, c.f) IN
         /\ nextMsg <= MaxMsgs
         /\ messageQueue' = r.queue
         /\ wire' = r.wire
         /\ isProcessingQueue' = r.processing
         /\ lastCall' = [op |-> "sendGamepadControl", id |-> nextMsg,
                         open |-> IsOpen(getWebSocketConnection),
                         queued |-> Len(messageQueue),
                         drainFail |-> c.d, sendFail |-> c.f,
                         raised |-> FALSE]
         /\ nextMsg' = nextMsg + 1
         /\ lastUpdateTime' = now
         /\ previousState' = Remembered(g)
         /\ lastTick' = [now |-> now, connected |-> g.connected,
                         hasMovement |-> hasMovement(g),
                         sent |-> TRUE, command |-> <<controlMessage(g)>>,
                         snapshot |-> <<g>>]

(* The device poller publishes a snapshot; the re-render runs the effect. *)
Tick ==
    /\ \E g \in Snapshots, now \in Clock, c \in ThrowChoices :
          EffectRuns(g, now, c)
    /\ UNCHANGED <<sessionVars, pollerVars>>

(* The throttler in front of a session whose socket is still connecting.   *)
InitThrottle ==
    /\ urlOk = TRUE
    /\ sessions = <<Connect(NewSession, urlOk)>>
    /\ globalWebSocketInstance = 1
    /\ mounted = TRUE
    /\ ServiceInit
    /\ ThrottleInit

NextThrottle == Tick

SpecThrottle == InitThrottle /\ [][NextThrottle]_vars

(* The poller publishes a fresh snapshot object on every animation frame   *)
(* of a bound device, so the effect keeps being run.                       *)
FairThrottle == SpecThrottle /\ WF_vars(Tick)

----------------------------------------------------------------------------
(* hooks/useGamepad.ts: the signal conditioner.  Raw readings, deadzone    *)
(* and sensitivities are in thousandths; a conditioned value is an exact   *)
(* fraction of thousandths.                                                *)

(* applyDeadzone, the variant without the test against the deadzone. *)
applyDeadzoneNoCut(value, deadzone) ==
    Rat((IF value > 0 THEN 1 ELSE -1) * (Abs(value) - deadzone) * 1000,
        1000 - deadzone)

(* applyDeadzone, the variant that loses the sign of the reading. *)
applyDeadzoneNoSign(value, deadzone) ==
    IF Abs(value) < deadzone
    THEN Zero
    ELSE Rat((Abs(value) - deadzone) * 1000, 1000 - deadzone)

(* applyDeadzone, the variant that rescales by the deadzone itself. *)
applyDeadzoneByDeadzone(value, deadzone) ==
    IF Abs(value) < deadzone
    THEN Zero
    ELSE Rat((IF value > 0 THEN 1 ELSE -1) * (Abs(value) - deadzone) * 1000,
             IF deadzone = 0 THEN 1000 ELSE deadzone)

applyDeadzone(value, deadzone) ==
    IF Abs(value) < deadzone
    THEN Zero
    ELSE Rat((IF value > 0 THEN 1 ELSE -1) * (Abs(value) - deadzone) * 1000,
             1000 - deadzone)

(* r * k for a fraction r and k in thousandths. *)
Times(r, k) == Rat(r.num * k, r.den * 1000)

Negated(r) == Rat(-r.num, r.den)

(* The four stick axes as lines 65-68 compute them. *)
leftX(raw, cfg) ==
    Times(applyDeadzone(raw.axes[1], cfg.deadzone), cfg.sensitivity.leftStick)

leftY(raw, cfg) ==
    LET v == Times(applyDeadzone(raw.axes[2], cfg.deadzone), cfg.sensitivity.leftStick)
    IN  IF cfg.invertY THEN Negated(v) ELSE v

rightX(raw, cfg) ==
    Times(applyDeadzone(raw.axes[3], cfg.deadzone), cfg.sensitivity.rightStick)

rightY(raw, cfg) ==
    LET v == Times(applyDeadzone(raw.axes[4], cfg.deadzone), cfg.sensitivity.rightStick)
    IN  IF cfg.invertY THEN Negated(v) ELSE v

(* Button index i of the device is entry i + 1. *)
GAMEPAD_BUTTON_MAPPING ==
    <<"a", "b", "x", "y", "lb", "rb", "lt", "rt", "back", "start",
      "leftStickButton", "rightStickButton", "dpadUp", "dpadDown", "dpadLeft",
      "dpadRight", "home">>

(* The buttons.forEach of lines 90-99: the pressed flags by name. *)
PressedNames(raw) ==
    {GAMEPAD_BUTTON_MAPPING[i + 1] :
        i \in {j \in raw.pressed : j + 1 <= Len(GAMEPAD_BUTTON_MAPPING)}}
      \ {"lt", "rt"}

(* The snapshot lines 101-106 publish for a raw reading. *)
Conditioned(raw, cfg) ==
    Snapshot(TRUE,
             <<leftX(raw, cfg), leftY(raw, cfg), rightX(raw, cfg), rightY(raw, cfg)>>,
             <<Times(Rat(raw.lt, 1), cfg.sensitivity.triggers),
               Times(Rat(raw.rt, 1), cfg.sensitivity.triggers)>>,
             PressedNames(raw))

(* A reading of a device: axes[0..3], the values of buttons 6 and 7, the   *)
(* indices of the pressed buttons.                                         *)
Reading(axes, lt, rt, pressed) ==
    [axes |-> axes, lt |-> lt, rt |-> rt, pressed |-> pressed]

RawReadings ==
    { Reading(<<0, 0, 0, 0>>,             0,    0,    {}),
      Reading(<<99, -99, 50, -50>>,       0,    0,    {}),
      Reading(<<100, -100, 1000, -1000>>, 1000, 600,  {0}),
      Reading(<<550, -550, 550, -550>>,   500,  0,    {5}),
      Reading(<<-550, 550, -100, 100>>,   0,    1000, {}),
      Reading(<<499, 500, -499, -500>>,   100,  100,  {14, 4}),
      Reading(<<1000, 1000, -1000, 0>>,   0,    0,    {}),
      Reading(<<-99, 99, 500, 999>>,      600,  600,  {6, 7}),
      Reading(<<1200, -1200, 0, 1000>>,   1500, 0,    {13, 17}) }

(* The readings the binding state machine is run with. *)
FewReadings ==
    { Reading(<<0, 0, 0, 0>>,           0,   0, {}),
      Reading(<<550, -550, 550, -550>>, 500, 0, {5}) }

Config(deadzone, left, right, triggers, invertY) ==
    [deadzone    |-> deadzone,
     sensitivity |-> [leftStick |-> left, rightStick |-> right, triggers |-> triggers],
     invertY     |-> invertY]

Configs ==
    { DEFAULT_GAMEPAD_CONFIG,
      Config(100, 1000, 1000, 1000, TRUE),
      Config(0,   1000, 500,  1000, FALSE),
      Config(500, 500,  1000, 500,  TRUE),
      Config(500, 1000, 0,    1000, FALSE),
      Config(100, 2000, 1000, 2000, FALSE),
      Config(999, 1000, 1000, 1000, TRUE) }

----------------------------------------------------------------------------
(* hooks/useGamepad.ts: the device poller *)

Slots == 0..(MaxSlots - 1)

(* The loops of lines 45-51 and 131-139, the variant that keeps the last   *)
(* live slot.                                                              *)
FirstLiveLast ==
    IF gamepads = {} THEN NoIndex
    ELSE CHOOSE i \in gamepads : \A j \in gamepads : j <= i

(* The loops of lines 45-51 and 131-139: the first slot holding a device.  *)
FirstLive ==
    IF gamepads = {} THEN NoIndex
    ELSE CHOOSE i \in gamepads : \A j \in gamepads : i <= j

(* requestAnimationFrame: an id no pending frame has and the ref does not  *)
(* hold.                                                                   *)
FreeFrameIds(pending) == (1..MaxFrames) \ (pending \cup {animationFrameId})

FreshFrameId(pending) ==
    CHOOSE id \in FreeFrameIds(pending) : \A k \in FreeFrameIds(pending) : id <= k

(* Line 61, the variant that requests the frame without storing its id. *)
RequestAfterLossUnstored(id) == animationFrameId

(* Line 61: the id the ref holds after the lost-device branch. *)
RequestAfterLoss(id) == id

(* Line 61, the variant that returns without requesting a frame. *)
PendingAfterLossNone(pending, id) == pending

(* Line 61: the frames pending after the lost-device branch. *)
PendingAfterLoss(pending, id) == pending \cup {id}

handleGamepadConnected(i) ==
    /\ gamepadIndex' = i
    /\ gamepadState' = [gamepadState EXCEPT !.connected = TRUE]

(* handleGamepadDisconnected, the variant that clears the index and       *)
(* leaves the snapshot's flag.                                             *)
handleGamepadDisconnectedKeepsFlag(i) ==
    IF gamepadIndex = i
    THEN /\ gamepadIndex' = NoIndex
         /\ UNCHANGED gamepadState
    ELSE UNCHANGED <<gamepadIndex, gamepadState>>

(* handleGamepadDisconnected, the variant without the index test. *)
handleGamepadDisconnectedAny(i) ==
    /\ gamepadIndex' = NoIndex
    /\ gamepadState' = [gamepadState EXCEPT !.connected = FALSE]

handleGamepadDisconnected(i) ==
    IF gamepadIndex = i
    THEN /\ gamepadIndex' = NoIndex
         /\ gamepadState' = [gamepadState EXCEPT !.connected = FALSE]
    ELSE UNCHANGED <<gamepadIndex, gamepadState>>

(* checkInitialGamepads, lines 129-142. *)
checkInitialGamepads ==
    IF FirstLive # NoIndex
    THEN /\ gamepadIndex' = FirstLive
         /\ gamepadState' = [gamepadState EXCEPT !.connected = TRUE]
    ELSE UNCHANGED <<gamepadIndex, gamepadState>>

(* The history record of a step that leaves the ref at index `after`:     *)
(* `bound` is the index before the step, `lost` the index the poller last *)
(* went unbound from.                                                      *)
Step(op, index, raw, after) ==
    [op |-> op, index |-> index, bound |-> gamepadIndex, raw |-> raw,
     lost |-> IF gamepadIndex # NoIndex /\ after = NoIndex
              THEN gamepadIndex
              ELSE lastStep.lost]

(* One run of pollGamepad as the callback of frame f, the bound device     *)
(* reading raw.                                                            *)
pollGamepad(f, raw) ==
    LET scanned == IF gamepadIndex = NoIndex THEN FirstLive ELSE gamepadIndex
        id      == FreshFrameId(frames \ {f})
    IN  /\ FreeFrameIds(frames \ {f}) # {}
        /\ IF scanned = NoIndex
           THEN /\ UNCHANGED <<gamepadIndex, gamepadState>>
                /\ frames' = (frames \ {f}) \cup {id}
                /\ animationFrameId' = id
                /\ lastStep' = Step("poll", NoIndex, <<>>, gamepadIndex')
           ELSE IF scanned \notin gamepads
           THEN /\ gamepadIndex' = NoIndex
                /\ gamepadState' = [gamepadState EXCEPT !.connected = FALSE]
                /\ frames' = PendingAfterLoss(frames \ {f}, id)
                /\ animationFrameId' = RequestAfterLoss(id)
                /\ lastStep' = Step("poll", NoIndex, <<>>, gamepadIndex')
           ELSE /\ gamepadIndex' = scanned
                /\ gamepadState' = Conditioned(raw, config)
                /\ frames' = (frames \ {f}) \cup {id}
                /\ animationFrameId' = id
                /\ lastStep' = Step("poll", scanned, <<raw>>, gamepadIndex')

(* The browser runs a requested frame. *)
PollGamepad(readings) ==
    /\ \E f \in frames, raw \in readings : pollGamepad(f, raw)
    /\ UNCHANGED <<config, gamepads, events, listening>>
    /\ UNCHANGED <<sessionVars, serviceVars, lastUpdateTime, previousState, lastTick>>

Poll == PollGamepad(FewReadings)

PollAnyReading == PollGamepad(RawReadings)

(* The effect of lines 112-148 runs. *)
PollerMount ==
    /\ ~listening
    /\ FreeFrameIds(frames) # {}
    /\ checkInitialGamepads
    /\ listening' = TRUE
    /\ animationFrameId' = FreshFrameId(frames)
    /\ frames' = frames \cup {FreshFrameId(frames)}
    /\ lastStep' = Step("mount", FirstLive, <<>>, gamepadIndex')
    /\ UNCHANGED <<config, gamepads, events>>
    /\ UNCHANGED <<sessionVars, serviceVars, lastUpdateTime, previousState, lastTick>>

(* The cleanup of lines 149-155 runs. *)
PollerUnmount ==
    /\ listening
    /\ listening' = FALSE
    /\ frames' = IF animationFrameId # NoFrame
                 THEN frames \ {animationFrameId}
                 ELSE frames
    /\ lastStep' = Step("unmount", NoIndex, <<>>, gamepadIndex)
    /\ UNCHANGED <<config, gamepads, events, gamepadIndex, gamepadState,
                   animationFrameId>>
    /\ UNCHANGED <<sessionVars, serviceVars, lastUpdateTime, previousState, lastTick>>

(* A device shows up in slot i; the browser queues gamepadconnected. *)
DeviceAppears ==
    /\ Len(events) < MaxEvents
    /\ \E i \in Slots \ gamepads :
          /\ gamepads' = gamepads \cup {i}
          /\ events' = Append(events, [type |-> "gamepadconnected", index |-> i])
          /\ lastStep' = Step("appears", i, <<>>, gamepadIndex)
    /\ UNCHANGED <<config, gamepadIndex, gamepadState, animationFrameId,
                   frames, listening>>
    /\ UNCHANGED <<sessionVars, serviceVars, lastUpdateTime, previousState, lastTick>>

(* The device of slot i goes away; the browser queues gamepaddisconnected. *)
DeviceRemoved ==
    /\ Len(events) < MaxEvents
    /\ \E i \in gamepads :
          /\ gamepads' = gamepads \ {i}
          /\ events' = Append(events, [type |-> "gamepaddisconnected", index |-> i])
          /\ lastStep' = Step("removed", i, <<>>, gamepadIndex)
    /\ UNCHANGED <<config, gamepadIndex, gamepadState, animationFrameId,
                   frames, listening>>
    /\ UNCHANGED <<sessionVars, serviceVars, lastUpdateTime, previousState, lastTick>>

(* The browser dispatches the oldest queued event on window; only a        *)
(* mounted effect has listeners for it.                                    *)
Dispatch ==
    /\ events # <<>>
    /\ events' = Tail(events)
    /\ LET e == Head(events) IN
         IF ~listening
         THEN /\ UNCHANGED <<gamepadIndex, gamepadState>>
              /\ lastStep' = Step("unheard", e.index, <<>>, gamepadIndex')
         ELSE /\ IF e.type = "gamepadconnected"
                 THEN handleGamepadConnected(e.index)
                 ELSE handleGamepadDisconnected(e.index)
              /\ lastStep' = Step(e.type, e.index, <<>>, gamepadIndex')
    /\ UNCHANGED <<config, gamepads, animationFrameId, frames, listening>>
    /\ UNCHANGED <<sessionVars, serviceVars, lastUpdateTime, previousState, lastTick>>

(* The poller with the default configuration: the component mounts and     *)
(* unmounts, devices come and go, frames run.                              *)
InitPoller ==
    /\ urlOk = TRUE
    /\ sessions = <<>>
    /\ globalWebSocketInstance = 0
    /\ mounted = FALSE
    /\ ServiceInit
    /\ ThrottleInit

NextPoller ==
    PollerMount \/ PollerUnmount \/ DeviceAppears \/ DeviceRemoved
      \/ Dispatch \/ Poll

SpecPoller == InitPoller /\ [][NextPoller]_vars

(* The browser runs a requested animation frame that stays pending. *)
FairPoller == SpecPoller /\ WF_vars(Poll)

(* The number a published value is, in thousandths.  The readings of the   *)
(* binding state machine condition to whole thousandths under the default  *)
(* configuration, for which the division is exact.                         *)
Thousandths(r) == r.num \div r.den

(* The snapshot useGamepad returns, as useGamepadControl reads it. *)
Returned(g) ==
    [connected  |-> g.connected,
     leftStick  |-> [x |-> Thousandths(g.leftStick.x), y |-> Thousandths(g.leftStick.y)],
     rightStick |-> [x |-> Thousandths(g.rightStick.x), y |-> Thousandths(g.rightStick.y)],
     lt         |-> Thousandths(g.lt),
     rt         |-> Thousandths(g.rt),
     buttons    |-> g.buttons]

(* The Date.now() readings of the effect runs that follow a publication. *)
FrameClock == {Epoch, Epoch + 17}

(* App.tsx lines 31-32: the render after a publication runs the            *)
(* useGamepadControl effect with the snapshot useGamepad returned.         *)
EffectOnPublished ==
    /\ listening
    /\ \E now \in FrameClock, c \in ThrowChoices :
          /\ Suppressed(Returned(gamepadState), now) \/ nextMsg <= MaxProgramMsgs
          /\ EffectRuns(Returned(gamepadState), now, c)
    /\ UNCHANGED <<sessionVars, pollerVars>>

(* The poller feeding the throttler, mounted with no device present:       *)
(* devices come and go, frames run, and the effect runs on what is         *)
(* published; no session is connected, so every command is queued.         *)
InitPipeline ==
    /\ urlOk = TRUE
    /\ sessions = <<>>
    /\ globalWebSocketInstance = 0
    /\ mounted = FALSE
    /\ ServiceInit
    /\ lastUpdateTime = 0
    /\ previousState = <<>>
    /\ lastTick = NoTick
    /\ config = DEFAULT_GAMEPAD_CONFIG
    /\ gamepads = {}
    /\ events = <<>>
    /\ gamepadIndex = NoIndex
    /\ gamepadState = Snapshot(FALSE, <<Zero, Zero, Zero, Zero>>, <<Zero, Zero>>, {})
    /\ animationFrameId = 1
    /\ frames = {1}
    /\ listening = TRUE
    /\ lastStep = [NoStep EXCEPT !.op = "mount"]

NextPipeline ==
    DeviceAppears \/ DeviceRemoved \/ Dispatch \/ Poll \/ EffectOnPublished

SpecPipeline == InitPipeline /\ [][NextPipeline]_vars

(* The conditioner: a mounted poller bound to the device of slot 0, under  *)
(* each configuration, polling each reading.                               *)
InitCondition ==
    /\ urlOk = TRUE
    /\ sessions = <<>>
    /\ globalWebSocketInstance = 0
    /\ mounted = FALSE
    /\ ServiceInit
    /\ lastUpdateTime = 0
    /\ previousState = <<>>
    /\ lastTick = NoTick
    /\ config \in Configs
    /\ gamepads = {0}
    /\ events = <<>>
    /\ gamepadIndex = 0
    /\ gamepadState = Snapshot(TRUE, <<Zero, Zero, Zero, Zero>>, <<Zero, Zero>>, {})
    /\ animationFrameId = 1
    /\ frames = {1}
    /\ listening = TRUE
    /\ lastStep = [op |-> "mount", index |-> 0, bound |-> NoIndex, raw |-> <<>>,
                   lost |-> NoIndex]

NextCondition == PollAnyReading

SpecCondition == InitCondition /\ [][NextCondition]_vars

----------------------------------------------------------------------------
(* Claims about the transport session *)

PendingIsTheRememberedTimer(S) ==
    /\ Cardinality(S.pendingTimers) <= 1
    /\ \A t \in S.pendingTimers :
          t.id = S.reconnectTimeout /\ t.delay = RECONNECT_DELAY

(* C4: a session never has more than one reconnect timer pending, and the  *)
(* pending one is the timer reconnectTimeout names, set for 1000 ms; every *)
(* close event leaves exactly one timer pending, also when a timer was     *)
(* already pending at the close (that one is cancelled, not kept).         *)
C4_OnePendingReconnect ==
    /\ [](\A s \in SessionIds : PendingIsTheRememberedTimer(sessions[s]))
    /\ [][\A s \in SessionIds :
            (SocketCloses(s) \/ SocketFails(s))
                => /\ Cardinality(sessions'[s].pendingTimers) = 1
                   /\ sessions'[s].reconnectTimeout # 0
                   /\ (sessions[s].pendingTimers # {}
                         => sessions'[s].pendingTimers \cap sessions[s].pendingTimers = {})]_vars

(* C4 witness: a second close arrived while the timer of an earlier close  *)
(* was pending, and one timer is pending now.                              *)
C4_Witness ==
    \E s \in SessionIds :
        /\ sessions[s].replaced
        /\ Cardinality(sessions[s].pendingTimers) = 1
        /\ sessions[s].ws.state = "CLOSED"

(* C5 (as claimed): once disconnect() has been called, the session has no  *)
(* reconnect timer pending and no socket of it is connecting or open.      *)
C5_TeardownHaltsReconnect ==
    \A s \in SessionIds :
        sessions[s].tornDown =>
            /\ sessions[s].pendingTimers = {}
            /\ \A x \in LiveSockets(sessions[s]) : x.sock.state = "CLOSING"

LiveCount(S) ==
    (IF S.ws.state \in {"CONNECTING", "OPEN"} THEN 1 ELSE 0)
    + BagCardinality(S.orphans)

----------------------------------------------------------------------------
(* Claims about the send wrapper and its queue *)

GamepadFrames(q) == [i \in 1..Len(q) |-> Frame("gamepad_control", q[i])]

IsGamepadCall == lastCall'.op = "sendGamepadControl" /\ nextMsg' = nextMsg + 1

(* C1: a sendGamepadControl call made while the global session has no      *)
(* socket, or a socket that is not OPEN, does not raise, writes nothing    *)
(* and appends the message at the tail of the queue.                       *)
C1_ClosedSendQueues ==
    [][(IsGamepadCall /\ ~IsOpen(getWebSocketConnection))
         => /\ ~lastCall'.raised
            /\ wire' = wire
            /\ messageQueue' = Append(messageQueue, nextMsg)]_vars

(* C1 witness: a message was queued behind an earlier one while the socket *)
(* was not open.                                                           *)
C1_Witness ==
    /\ lastCall.op = "sendGamepadControl"
    /\ ~lastCall.open
    /\ lastCall.queued >= 1
    /\ Len(messageQueue) = lastCall.queued + 1
    /\ messageQueue[Len(messageQueue)] = lastCall.id

(* C2: a sendGamepadControl call on an open socket in which no write       *)
(* throws writes the queued messages in queue order, then the new message, *)
(* and leaves the queue empty.                                             *)
C2_DrainThenSend ==
    [][(IsGamepadCall /\ lastCall'.open /\ lastCall'.drainFail = 0 /\ ~lastCall'.sendFail)
         => /\ wire' = wire \o GamepadFrames(messageQueue)
                            \o <<Frame("gamepad_control", nextMsg)>>
            /\ messageQueue' = <<>>]_vars

(* C2 witness: two messages queued while disconnected went out, in order,  *)
(* ahead of the third, on the first send after the reconnection.           *)
C2_Witness ==
    /\ lastCall.op = "sendGamepadControl"
    /\ lastCall.open /\ lastCall.queued = 2
    /\ lastCall.drainFail = 0 /\ ~lastCall.sendFail
    /\ messageQueue = <<>>
    /\ wire = GamepadFrames(<<1, 2, 3>>)
    /\ ~sessions[1].ws.initial

OnWire(id) == \E i \in 1..Len(wire) : wire[i] = Frame("gamepad_control", id)

QueueInIssueOrder ==
    /\ \A i, j \in 1..Len(messageQueue) : i < j => messageQueue[i] < messageQueue[j]
    /\ \A i \in 1..Len(messageQueue) : ~OnWire(messageQueue[i])

(* C3: the queue holds unsent messages in issue order; the messages a step *)
(* removes from the queue are a prefix of it (head first), and each of     *)
(* them was written by that step, in queue order.                          *)
C3_FifoQueue ==
    /\ []QueueInIssueOrder
    /\ [][\E k \in 0..Len(messageQueue) :
            /\ \A i \in 1..Len(messageQueue) :
                  (\E j \in 1..Len(messageQueue') : messageQueue'[j] = messageQueue[i])
                      <=> i > k
            /\ Len(wire') >= Len(wire) + k
            /\ SubSeq(wire', Len(wire) + 1, Len(wire) + k)
                  = GamepadFrames(SubSeq(messageQueue, 1, k))]_vars

(* C3 witness: a drain stopped at its second write; the first queued       *)
(* message is on the wire and the second is the head of the queue.         *)
C3_Witness ==
    /\ lastCall.op = "sendGamepadControl"
    /\ lastCall.queued = 2 /\ lastCall.drainFail = 2
    /\ OnWire(1)
    /\ Len(messageQueue) >= 1 /\ messageQueue[1] = 2

(* C23: when the k-th write of a drain throws, the message it was writing  *)
(* and the messages behind it stay in the queue, in order, the failed one  *)
(* at the head, and none of them is written by that call; only the k - 1   *)
(* messages ahead of it were written.                                      *)
C23_DrainStopsAtFailure ==
    [][(/\ nextMsg' = nextMsg + 1
        /\ lastCall'.op = "sendGamepadControl"
        /\ lastCall'.open
        /\ lastCall'.drainFail > 0)
         => LET k == lastCall'.drainFail
                n == Len(messageQueue)
                written == SubSeq(wire', Len(wire) + 1, Len(wire'))
            IN  /\ Len(messageQueue') >= n - k + 1
                /\ SubSeq(messageQueue', 1, n - k + 1) = SubSeq(messageQueue, k, n)
                /\ \A i \in k..n : \A j \in 1..Len(written) :
                      written[j] # Frame("gamepad_control", messageQueue[i])
                /\ SubSeq(written, 1, k - 1)
                      = GamepadFrames(SubSeq(messageQueue, 1, k - 1))
                /\ Len(written) = (k - 1) + (IF lastCall'.sendFail THEN 0 ELSE 1)]_vars

(* C23 witness: the first write of a drain of two queued messages threw;   *)
(* both are still queued in their order and neither is on the wire.        *)
C23_Witness ==
    /\ lastCall.op = "sendGamepadControl"
    /\ lastCall.open /\ lastCall.queued = 2 /\ lastCall.drainFail = 1
    /\ Len(messageQueue) >= 2
    /\ SubSeq(messageQueue, 1, 2) = <<1, 2>>
    /\ ~OnWire(1) /\ ~OnWire(2)

InQueue(m) == \E i \in 1..Len(messageQueue) : messageQueue[i] = m

(* A write of message m has been tried: it is on the wire, or it is the    *)
(* message the last drain stopped at, or the last call tried to write it   *)
(* as its own message.                                                     *)
Attempted(m) ==
    \/ OnWire(m)
    \/ /\ lastCall.op = "sendGamepadControl" /\ lastCall.open
       /\ \/ lastCall.id = m
          \/ lastCall.drainFail > 0 /\ messageQueue # <<>> /\ messageQueue[1] = m

(* The step is a sendGamepadControl call that found the socket open. *)
OpenSendStep ==
    /\ nextMsg' = nextMsg + 1
    /\ lastCall'.op = "sendGamepadControl"
    /\ lastCall'.open

(* C24 (as claimed): a queued message does not stay unattempted forever    *)
(* while the connection is open.                                           *)
C24_QueuedEventuallyAttempted ==
    \A m \in 1..MaxMsgs :
        (InQueue(m) /\ IsOpen(getWebSocketConnection))
            ~> (Attempted(m) \/ ~IsOpen(getWebSocketConnection))

(* C24 (amended): the queued messages are attempted, in their order and up *)
(* to the first write that throws, by the next sendGamepadControl call     *)
(* that finds the socket open; every other step leaves each queued message *)
(* in its place and off the wire.                                          *)
C24_AttemptedByNextOpenSend ==
    [][LET n == Len(messageQueue)
           d == lastCall'.drainFail
           a == IF d = 0 THEN n ELSE d - 1
       IN  /\ OpenSendStep =>
                /\ Len(wire') >= Len(wire) + a
                /\ SubSeq(wire', Len(wire) + 1, Len(wire) + a)
                      = GamepadFrames(SubSeq(messageQueue, 1, a))
                /\ d > 0 => (messageQueue' # <<>> /\ messageQueue'[1] = messageQueue[d])
                /\ d = 0 => \A i \in 1..n : ~\E j \in 1..Len(messageQueue') :
                                 messageQueue'[j] = messageQueue[i]
           /\ ~OpenSendStep =>
                /\ Len(messageQueue') >= n
                /\ SubSeq(messageQueue', 1, n) = messageQueue
                /\ \A j \in 1..Len(wire') : wire'[j].kind = "gamepad_control"
                      => (j <= Len(wire) /\ wire[j] = wire'[j])]_vars

(* C24 witness: after a reconnection a call drained the two queued         *)
(* messages in order and its own write threw: they are on the wire, the    *)
(* new message is queued.                                                  *)
C24_Witness ==
    /\ lastCall.op = "sendGamepadControl"
    /\ lastCall.open /\ lastCall.queued = 2
    /\ lastCall.drainFail = 0 /\ lastCall.sendFail
    /\ wire = GamepadFrames(<<1, 2>>)
    /\ messageQueue = <<3>>
    /\ ~sessions[1].ws.initial

(* C25: the open event of a socket, initial or reconnect, leaves the queue *)
(* and the wire as they are; a queued message leaves the queue or reaches  *)
(* the wire only in a sendGamepadControl call.                             *)
C25_OpenDoesNotFlush ==
    [][/\ (\E s \in 1..Len(sessions) :
              /\ sessions[s].ws.state = "CONNECTING"
              /\ sessions'[s].ws.state = "OPEN")
            => UNCHANGED <<messageQueue, wire, isProcessingQueue>>
       /\ (\E i \in 1..Len(messageQueue) :
              \/ ~\E j \in 1..Len(messageQueue') : messageQueue'[j] = messageQueue[i]
              \/ \E j \in 1..Len(wire') :
                    wire'[j] = Frame("gamepad_control", messageQueue[i]))
            => (lastCall'.op = "sendGamepadControl" /\ nextMsg' = nextMsg + 1)]_vars

(* C25 witness: the socket of a reconnect attempt is open, two messages    *)
(* are still queued and nothing has been written.                          *)
C25_Witness ==
    /\ IsOpen(getWebSocketConnection)
    /\ ~getWebSocketConnection.initial
    /\ messageQueue = <<1, 2>>
    /\ wire = <<>>

(* C8 (as claimed): whatever the kind of the message, a send made while    *)
(* the socket is not open does not raise and leaves the message in the     *)
(* outbound queue.                                                         *)
C8_EverySendQueuesWhileClosed ==
    (lastCall.op # "none" /\ ~lastCall.open)
        => /\ ~lastCall.raised
           /\ \E i \in 1..Len(messageQueue) : messageQueue[i] = lastCall.id

----------------------------------------------------------------------------
(* Claims about the command throttler *)

(* C9 (as claimed): a command is never sent less than 60 ms after the      *)
(* previously sent command.                                                *)
C9_SixtyMsSuppressed ==
    [][(previousState # <<>> /\ lastTick'.now - lastUpdateTime < 60)
         => ~lastTick'.sent]_vars

(* C9 (amended): a tick less than 1000/60 ms after the previously sent     *)
(* command sends nothing and changes nothing, whatever the sticks read.    *)
C9_TooSoonSuppressed ==
    [][(previousState # <<>>
          /\ (lastTick'.now - lastUpdateTime) * CONTROL_UPDATE_RATE < 1000)
         => /\ ~lastTick'.sent
            /\ UNCHANGED <<serviceVars, lastUpdateTime, previousState>>]_vars

(* C9 witness: a tick with a deflected stick, 16 ms after the last sent    *)
(* command, sent nothing.                                                  *)
C9_Witness ==
    /\ previousState # <<>>
    /\ lastTick.connected /\ lastTick.hasMovement /\ ~lastTick.sent
    /\ lastTick.now - lastUpdateTime = 16

(* C10: two consecutively sent commands are at least 1000/60 ms apart by   *)
(* the clock readings of their ticks.                                      *)
C10_SendSpacing ==
    [][(nextMsg' # nextMsg /\ previousState # <<>>)
         => /\ lastUpdateTime' = lastTick'.now
            /\ (lastUpdateTime' - lastUpdateTime) * CONTROL_UPDATE_RATE >= 1000]_vars

(* C10 witness: the second command went out 17 ms after the first. *)
C10_Witness ==
    /\ nextMsg = 3
    /\ lastTick.sent
    /\ lastUpdateTime = Epoch + 17

(* The input thresholds of the throttler as the specification words them:  *)
(* no stick axis beyond 0.01 and neither trigger beyond 0.1.               *)
AtRest(g) ==
    /\ \A v \in {g.leftStick.x, g.leftStick.y, g.rightStick.x, g.rightStick.y} :
          -10 <= v /\ v <= 10
    /\ g.lt <= 100
    /\ g.rt <= 100

WatchedButtons == {"a", "x", "y", "rb"}

(* C11: a tick whose snapshot is at rest and whose buttons a, x, y, rb     *)
(* equal those of the previously sent snapshot sends no command.           *)
C11_AtRestSendsNothing ==
    [][(/\ lastTick' # lastTick
        /\ previousState # <<>>
        /\ AtRest(lastTick'.snapshot[1])
        /\ \A b \in WatchedButtons :
              lastTick'.snapshot[1].buttons[b] = previousState[1].buttons[b])
         => /\ ~lastTick'.sent
            /\ UNCHANGED <<serviceVars, lastUpdateTime, previousState>>]_vars

(* C11 witness: a connected tick past the time gate, sticks at 0.01 and    *)
(* triggers at 0.1, buttons as in the last sent snapshot, sent nothing.    *)
C11_Witness ==
    /\ previousState # <<>>
    /\ lastTick.snapshot # <<>>
    /\ lastTick.connected
    /\ (lastTick.now - lastUpdateTime) * CONTROL_UPDATE_RATE >= 1000
    /\ lastTick.snapshot[1].leftStick.x = 10
    /\ lastTick.snapshot[1].lt = 100
    /\ \A b \in WatchedButtons :
          lastTick.snapshot[1].buttons[b] = previousState[1].buttons[b]
    /\ ~lastTick.sent

(* C12: a sent command carries x = lx * m, y = -ly * m, z = -ry * m and    *)
(* wrist = rx * m, m being 0.03 with rb held and 0.15 otherwise; with all  *)
(* four axes at zero the four deltas are zero.                             *)
C12_DeltasFromSticks ==
    lastTick.sent =>
        LET g == lastTick.snapshot[1]
            d == lastTick.command[1].deltas
            m == IF g.buttons.rb THEN 3 ELSE 15
        IN  /\ d.x = g.leftStick.x * m
            /\ d.y = 0 - g.leftStick.y * m
            /\ d.z = 0 - g.rightStick.y * m
            /\ d.wrist = g.rightStick.x * m
            /\ (g.leftStick.x = 0 /\ g.leftStick.y = 0
                  /\ g.rightStick.x = 0 /\ g.rightStick.y = 0)
                 => d = [x |-> 0, y |-> 0, z |-> 0, wrist |-> 0]

(* C12 witness: with rb held and the left stick pushed to y = -0.5 the     *)
(* command went out with y = 0.015.                                        *)
C12_Witness ==
    /\ lastTick.sent
    /\ lastTick.snapshot[1].buttons.rb
    /\ lastTick.snapshot[1].leftStick.y = -500
    /\ lastTick.command[1].deltas.y = 1500

(* C13: a sent command carries one gripper value: open when rt is beyond   *)
(* 0.5 (whatever lt reads), else close when lt is beyond 0.5, else stay.   *)
C13_GripperPriority ==
    lastTick.sent =>
        LET g == lastTick.snapshot[1]
            v == lastTick.command[1].gripper
        IN  /\ v \in {"open", "close", "stay"}
            /\ v = "open"  <=> g.rt > 500
            /\ v = "close" <=> (g.rt <= 500 /\ g.lt > 500)
            /\ v = "stay"  <=> (g.rt <= 500 /\ g.lt <= 500)

(* C13 witness: both triggers beyond 0.5, the command says open. *)
C13_Witness ==
    /\ lastTick.sent
    /\ lastTick.snapshot[1].lt > 500
    /\ lastTick.snapshot[1].rt > 500
    /\ lastTick.command[1].gripper = "open"

----------------------------------------------------------------------------
(* Claims about the signal conditioner *)

(* The last step was a poll that published a snapshot of a reading. *)
Published == lastStep.op = "poll" /\ lastStep.raw # <<>>

StickAxes(g) == <<g.leftStick.x, g.leftStick.y, g.rightStick.x, g.rightStick.y>>

(* The gain and the inversion lines 65-68 apply to axes[k - 1]. *)
AxisGain(k) ==
    IF k <= 2 THEN config.sensitivity.leftStick ELSE config.sensitivity.rightStick

AxisInverted(k) == k \in {2, 4} /\ config.invertY

(* C14: a raw axis reading of magnitude below the deadzone is published    *)
(* as exactly 0, whatever the gain and the inversion setting.              *)
C14_BelowDeadzoneIsZero ==
    Published =>
        \A k \in 1..4 :
            (lastStep.raw[1].axes[k] < config.deadzone
               /\ -lastStep.raw[1].axes[k] < config.deadzone)
              => StickAxes(gamepadState)[k] = [num |-> 0, den |-> 1]

(* C14 witness: with inversion on and deadzone 0.1 a left stick at         *)
(* y = -0.099 was published as 0.                                          *)
C14_Witness ==
    /\ Published
    /\ config.invertY /\ config.deadzone = 100
    /\ lastStep.raw[1].axes[2] = -99
    /\ gamepadState.leftStick.y.num = 0

(* sign(raw) * ((|raw| - deadzone) / (1 - deadzone)) * gain, in            *)
(* thousandths.                                                            *)
Rescaled(raw, deadzone, gain) ==
    LET sign == IF raw > 0 THEN 1 ELSE IF raw < 0 THEN -1 ELSE 0
        mag  == IF raw < 0 THEN -raw ELSE raw
    IN  Rat(sign * (mag - deadzone) * gain, 1000 - deadzone)

(* The reading with every axis mirrored. *)
Mirrored(raw) == [raw EXCEPT !.axes = [k \in 1..4 |-> -raw.axes[k]]]

(* C15: a raw axis reading of magnitude at or beyond the deadzone is       *)
(* published as sign(raw) * ((|raw| - deadzone) / (1 - deadzone)) * gain   *)
(* (negated on a Y axis when inversion is on): the deadzone itself maps to *)
(* 0, 1 maps to the gain, and the mirrored reading to the negated value.   *)
C15_RescaleAndGain ==
    Published =>
        \A k \in 1..4 :
            LET raw == lastStep.raw[1].axes[k]
                mag == IF raw < 0 THEN -raw ELSE raw
                v   == StickAxes(gamepadState)[k]
                w   == IF AxisInverted(k) THEN Rat(-v.num, v.den) ELSE v
            IN  mag >= config.deadzone =>
                  /\ w = Rescaled(raw, config.deadzone, AxisGain(k))
                  /\ mag = config.deadzone => w.num = 0
                  /\ raw = 1000 => w = Rat(AxisGain(k), 1)
                  /\ StickAxes(Conditioned(Mirrored(lastStep.raw[1]), config))[k]
                        = Rat(-v.num, v.den)

(* C15 witness: deadzone 0.1 and gain 1, a right stick at x = 1 and        *)
(* y = -1 was published as 1 and -1, a left stick at the deadzone as 0.    *)
C15_Witness ==
    /\ Published
    /\ config = DEFAULT_GAMEPAD_CONFIG
    /\ lastStep.raw[1].axes = <<100, -100, 1000, -1000>>
    /\ gamepadState.rightStick = [x |-> Rat(1000, 1), y |-> Rat(-1000, 1)]
    /\ gamepadState.leftStick = [x |-> Zero, y |-> Zero]

(* lo <= r <= hi for a fraction r of thousandths. *)
Within(r, lo, hi) == lo * r.den <= r.num /\ r.num <= hi * r.den

InRange(g) ==
    /\ \A k \in 1..4 : Within(StickAxes(g)[k], -1000, 1000)
    /\ Within(g.lt, 0, 1000)
    /\ Within(g.rt, 0, 1000)

(* C16 (as claimed): every published snapshot has its stick axes in        *)
(* [-1, 1] and its triggers in [0, 1], whatever the raw reading and the    *)
(* sensitivity gain.                                                       *)
C16_AlwaysInRange == Published => InRange(gamepadState)

(* C16 (amended): a published snapshot has its stick axes in [-1, 1] and   *)
(* its triggers in [0, 1] when the raw axes are within [-1, 1], the raw    *)
(* trigger values within [0, 1] and the three gains within [0, 1].         *)
C16_InRangeForNormalisedInput ==
    (/\ Published
     /\ \A k \in 1..4 : -1000 <= lastStep.raw[1].axes[k]
                          /\ lastStep.raw[1].axes[k] <= 1000
     /\ \A t \in {lastStep.raw[1].lt, lastStep.raw[1].rt} : 0 <= t /\ t <= 1000
     /\ \A s \in {config.sensitivity.leftStick, config.sensitivity.rightStick,
                  config.sensitivity.triggers} : 0 <= s /\ s <= 1000)
        => InRange(gamepadState)

(* C16 witness: deadzone 0.1 and gain 1, a stick at full deflection and a  *)
(* trigger fully pulled were published as exactly 1.                       *)
C16_Witness ==
    /\ Published
    /\ config = DEFAULT_GAMEPAD_CONFIG
    /\ lastStep.raw[1].axes[3] = 1000 /\ lastStep.raw[1].lt = 1000
    /\ gamepadState.rightStick.x = Rat(1000, 1)
    /\ gamepadState.lt = Rat(1000, 1)

----------------------------------------------------------------------------
(* Claims about the device poller *)

(* The step is a run of pollGamepad / of the mounting effect / the         *)
(* dispatch of an event of the given type to the poller's listener.        *)
PollStep == lastStep'.op = "poll" /\ frames' # frames

MountStep == ~listening /\ listening'

Heard(type) ==
    /\ listening
    /\ events # <<>>
    /\ events' = Tail(events)
    /\ Head(events).type = type

(* C17: with no device bound, a poll or the scan at mount binds the lowest *)
(* live slot, or nothing when no slot is live; a gamepadconnected event    *)
(* for index i binds i.                                                    *)
C17_BindsLowestLive ==
    [][gamepadIndex = NoIndex =>
         /\ (PollStep \/ MountStep) =>
               IF gamepads = {}
               THEN gamepadIndex' = NoIndex
               ELSE /\ gamepadIndex' \in gamepads
                    /\ \A j \in gamepads : gamepadIndex' <= j
         /\ Heard("gamepadconnected") =>
               gamepadIndex' = Head(events).index]_vars

(* C17 witness: a poll of an unbound poller met devices in slots 0 and 1   *)
(* and bound slot 0.                                                       *)
C17_Witness ==
    /\ lastStep.op = "poll"
    /\ lastStep.bound = NoIndex
    /\ gamepads = {0, 1}
    /\ gamepadIndex = 0

(* C18: a bound poller goes unbound exactly on a gamepaddisconnected event *)
(* for its index or on a poll that finds its slot empty, and then reports  *)
(* connected = false; a gamepaddisconnected event for another index        *)
(* changes neither the binding nor the snapshot.                           *)
C18_UnbindsOnLoss ==
    [][gamepadIndex # NoIndex =>
         /\ gamepadIndex' = NoIndex
              <=> \/ Heard("gamepaddisconnected")
                       /\ Head(events).index = gamepadIndex
                  \/ PollStep /\ gamepadIndex \notin gamepads
         /\ gamepadIndex' = NoIndex => ~gamepadState'.connected
         /\ (Heard("gamepaddisconnected") /\ Head(events).index # gamepadIndex)
              => UNCHANGED <<gamepadIndex, gamepadState>>]_vars

(* C18 witness: the poller lost the device of slot 0 and a later poll      *)
(* bound it to the device of slot 1.                                       *)
C18_Witness ==
    /\ lastStep.op = "poll"
    /\ lastStep.bound = NoIndex
    /\ lastStep.lost = 0
    /\ gamepadIndex = 1
    /\ gamepadState.connected

(* C19 (as claimed): a bound poller keeps its index for as long as the     *)
(* device of that slot stays live.                                         *)
C19_FirstDiscoveredWins ==
    [][(gamepadIndex # NoIndex /\ gamepadIndex \in gamepads
          /\ gamepadIndex \in gamepads')
         => gamepadIndex' = gamepadIndex]_vars

(* C20: once the cleanup has run no frame is pending, so no poll runs, and *)
(* until the effect is mounted again no step changes the binding or the    *)
(* snapshot.                                                               *)
C20_TeardownStopsPoller ==
    /\ [](~listening => frames = {})
    /\ [][(~listening /\ ~listening')
            => /\ lastStep'.op # "poll"
               /\ UNCHANGED <<gamepadIndex, gamepadState>>]_vars

(* C20 witness: the last poll before the cleanup took the lost-device      *)
(* branch; afterwards an event was dispatched with nobody listening and no *)
(* frame is pending.                                                       *)
C20_Witness ==
    /\ ~listening
    /\ lastStep.op = "unheard"
    /\ lastStep.lost # NoIndex
    /\ gamepadIndex = NoIndex
    /\ animationFrameId # NoFrame
    /\ frames = {}

----------------------------------------------------------------------------
(* Claims about the startup promise and the inbound path *)

(* The readyState of the socket of the first connect() call of a session:  *)
(* "none" before that socket exists, "gone" once it is closed and no       *)
(* longer referenced.                                                      *)
InitialSocketState(S) ==
    IF S.ws.initial THEN S.ws.state
    ELSE IF \E o \in BagToSet(S.orphans) : o.initial
         THEN (CHOOSE o \in BagToSet(S.orphans) : o.initial).state
         ELSE IF S.promise = "none" THEN "none" ELSE "gone"

(* C21: the promise of the initial connect() is settled at most once; it   *)
(* resolves exactly when the first socket opens and rejects exactly when   *)
(* the first attempt fails before opening; sockets of reconnect attempts   *)
(* never settle it.                                                        *)
C21_StartupPromiseSettlesOnce ==
    [][/\ \A s \in 1..Len(sessions) :
            LET p  == sessions[s].promise
                q  == sessions'[s].promise
                a  == InitialSocketState(sessions[s])
                b  == InitialSocketState(sessions'[s])
            IN  /\ p \in {"resolved", "rejected"} => q = p
                /\ (a = "CONNECTING" /\ b = "OPEN") => q = "resolved"
                /\ (a = "CONNECTING" /\ b \in {"CLOSED", "gone"}) => q = "rejected"
                /\ (p = "pending" /\ q = "resolved")
                      => (a = "CONNECTING" /\ b = "OPEN")
                /\ (p = "pending" /\ q = "rejected")
                      => (a \in {"CONNECTING", "CLOSING"} /\ b \in {"CLOSED", "gone"})
                /\ a = b => q = p
       /\ Len(sessions') > Len(sessions)
            => sessions'[Len(sessions')].promise
                  = IF urlOk THEN "pending" ELSE "rejected"]_vars

(* C21 witness: the first attempt failed and rejected the promise; the     *)
(* socket of a reconnect attempt is open and the promise is still          *)
(* rejected.                                                               *)
C21_Witness ==
    \E s \in 1..Len(sessions) :
        /\ sessions[s].promise = "rejected"
        /\ sessions[s].ws.state = "OPEN"
        /\ ~sessions[s].ws.initial

(* C22: a payload that cannot be parsed reaches no observer and changes    *)
(* nothing of the session (no socket closes, no reconnect is scheduled);   *)
(* the next well-formed message is delivered as usual.                     *)
C22_MalformedIsDropped ==
    [][\A s \in 1..Len(sessions) :
          LET S == sessions[s]
              T == sessions'[s]
          IN  T.inbound # S.inbound =>
                /\ T = [S EXCEPT !.inbound = T.inbound]
                /\ ~T.inbound.wellFormed => T.inbound.invoked = <<>>
                /\ (T.inbound.wellFormed /\ T.inbound.afterMalformed
                      /\ T.messageHandlers # <<>>)
                     => /\ T.inbound.invoked # <<>>
                        /\ T.inbound.invoked[1] = T.messageHandlers[1]
                        /\ T.inbound.raised = 0
                             => T.inbound.invoked = T.messageHandlers]_vars

(* C22 witness: on an open socket a well-formed message that followed a    *)
(* malformed one reached both observers.                                   *)
C22_Witness ==
    /\ sessions[1].ws.state = "OPEN"
    /\ sessions[1].inbound.wellFormed
    /\ sessions[1].inbound.afterMalformed
    /\ sessions[1].inbound.invoked = <<1, 2>>

(* C26 (as claimed): a well-formed message reaches every registered        *)
(* observer, once and in registration order, also when an observer raises. *)
C26_EveryObserverInvoked ==
    [][\A s \in 1..Len(sessions) :
          (sessions'[s].inbound # sessions[s].inbound
             /\ sessions'[s].inbound.wellFormed)
            => sessions'[s].inbound.invoked = sessions[s].messageHandlers]_vars

(* C27: disconnect() called again right after disconnect() changes         *)
(* nothing, in every state of the session.                                 *)
C27_TeardownIdempotent ==
    \A s \in 1..Len(sessions) :
        Disconnect(Disconnect(sessions[s])) = Disconnect(sessions[s])

(* C27 witness: a session torn down while its socket was live and a        *)
(* reconnect timer was pending: the timer is cancelled, the socket is      *)
(* closing, and a further disconnect() leaves this state as it is.         *)
C27_Witness ==
    /\ sessions[1].tornDown
    /\ sessions[1].ws.state = "CLOSING"
    /\ sessions[1].reconnectTimeout # 0
    /\ sessions[1].pendingTimers = {}
    /\ Disconnect(sessions[1]) = sessions[1]

----------------------------------------------------------------------------
(* Claims about the polling loop and the throttler's bookkeeping *)

(* C28: while the poller is mounted exactly one frame is pending, the one  *)
(* the ref names; every run of pollGamepad, whatever its branch, replaces  *)
(* the frame it ran as by one new frame; and while the poller stays        *)
(* mounted pollGamepad runs again and again.                               *)
C28_OnePendingIteration ==
    /\ [](listening => (Cardinality(frames) = 1 /\ frames = {animationFrameId}))
    /\ [][lastStep'.op = "poll"
            => /\ Cardinality(frames') = 1
               /\ frames' \cap frames = {}]_vars
    /\ (<>[]listening) => ([]<><<lastStep'.op = "poll">>_vars)

(* C28 witness: the poll that lost its device left one frame pending. *)
C28_Witness ==
    /\ listening
    /\ lastStep.op = "poll"
    /\ lastStep.bound # NoIndex
    /\ gamepadIndex = NoIndex
    /\ Cardinality(frames) = 1
    /\ animationFrameId \in frames


(* C29: the throttler's last send time and last sent snapshot change only  *)
(* on a tick that sends, and become that tick's clock reading and          *)
(* snapshot; a tick that is suppressed (device not connected, too soon     *)
(* after the last send, or at rest with no watched button changed) sends   *)
(* nothing and leaves both as they were.                                   *)
C29_BookkeepingOnlyOnSend ==
    [][/\ IF lastTick'.sent
          THEN /\ lastUpdateTime' = lastTick'.now
               /\ previousState' = lastTick'.snapshot
               /\ nextMsg' = nextMsg + 1
          ELSE UNCHANGED <<lastUpdateTime, previousState, serviceVars>>
       /\ (\/ ~lastTick'.connected
           \/ TooSoon(lastTick'.now, lastUpdateTime)
           \/ /\ AtRest(lastTick'.snapshot[1])
              /\ previousState # <<>>
              /\ \A b \in WatchedButtons :
                    lastTick'.snapshot[1].buttons[b] = previousState[1].buttons[b])
            => ~lastTick'.sent]_vars

(* A second send has replaced an earlier send's time and snapshot. *)
C29_Witness ==
    /\ lastTick.sent
    /\ nextMsg >= 3
    /\ lastUpdateTime = Epoch + 40
    /\ previousState = lastTick.snapshot
    /\ previousState[1].buttons.rb

(* The D-pad buttons the arm's control mapping gives to wrist roll. *)
Dpad(g) == <<g.buttons.dpadLeft, g.buttons.dpadRight>>

(* The effect ran on a connected device, past the time gate and with room  *)
(* to send; the device's D-pad state is d, which the last sent snapshot    *)
(* did not carry; no command was sent.                                     *)
DpadUnsent(d) ==
    /\ lastTick.connected
    /\ ~lastTick.sent
    /\ previousState # <<>>
    /\ ~TooSoon(lastTick.now, lastUpdateTime)
    /\ nextMsg <= MaxMsgs
    /\ Dpad(lastTick.snapshot[1]) = d
    /\ Dpad(previousState[1]) # d

(* C30: whenever dpadLeft or dpadRight changes state on a connected        *)
(* device, a command carrying the new D-pad state is eventually sent, also *)
(* when sticks and triggers are at rest.                                   *)
C30_DpadChangeEventuallySent ==
    \A d \in {Dpad(g) : g \in Snapshots} :
        DpadUnsent(d) ~>
            (/\ lastTick.sent
             /\ <<lastTick.command[1].buttons.dpadLeft,
                  lastTick.command[1].buttons.dpadRight>> = d)

----------------------------------------------------------------------------
(* Claims about the whole send path *)

(* The places message m is held: its occurrences in the queue plus its     *)
(* gamepad frames on the wire.                                             *)
Copies(q, w, m) ==
    Cardinality({i \in 1..Len(q) : q[i] = m})
        + Cardinality({j \in 1..Len(w) : w[j] = Frame("gamepad_control", m)})

(* C31: every message passed to sendGamepadControl is held exactly once,   *)
(* in the queue or on the wire: the call that takes it puts it in one of   *)
(* the two, and no step (a later call, a drain that throws, a connection   *)
(* change) removes it from both or gives it a second place.                *)
C31_MessagesConserved ==
    /\ [](\A m \in 1..(MaxMsgs + 1) : Copies(messageQueue, wire, m) <= 1)
    /\ [][\A m \in 1..(MaxMsgs + 1) :
            Copies(messageQueue', wire', m)
                = IF IsGamepadCall /\ m = nextMsg
                  THEN 1
                  ELSE Copies(messageQueue, wire, m)]_vars

(* C31 witness: a drain of two queued messages wrote the first and threw   *)
(* on the second, and the write of the new message threw as well.          *)
C31_Witness ==
    /\ lastCall.op = "sendGamepadControl"
    /\ lastCall.open /\ lastCall.queued = 2
    /\ lastCall.drainFail = 2 /\ lastCall.sendFail
    /\ wire = GamepadFrames(<<1>>)
    /\ messageQueue = <<2, 3>>

(* The call tried a write: its frames reached the wire, or a write threw. *)
WriteAttempted ==
    /\ IsGamepadCall
    /\ (wire' # wire \/ lastCall'.drainFail > 0 \/ lastCall'.sendFail)

(* C32: a gamepad frame is written, or its write tried, only in a          *)
(* sendGamepadControl call made while the socket held by the most recently *)
(* constructed session is OPEN; a call that finds that socket missing,     *)
(* connecting, closing or closed (as during the wait before a reconnect)   *)
(* writes nothing, and no other step writes a gamepad frame.               *)
C32_WritesOnlyOnCurrentOpenSocket ==
    [][/\ WriteAttempted =>
            /\ Len(sessions) > 0
            /\ globalWebSocketInstance = Len(sessions)
            /\ sessions[Len(sessions)].ws.state = "OPEN"
       /\ (\E j \in 1..Len(wire') :
              /\ wire'[j].kind = "gamepad_control"
              /\ ~(j <= Len(wire) /\ wire[j] = wire'[j]))
            => WriteAttempted]_vars

(* C32 witness: the first session was torn down and its socket is open     *)
(* again after a reconnect; the second session's socket has closed and     *)
(* waits for its reconnect timer; the call queued its message.             *)
C32_Witness ==
    /\ Len(sessions) = 2
    /\ sessions[1].ws.state = "OPEN"
    /\ sessions[2].ws.state = "CLOSED"
    /\ sessions[2].pendingTimers # {}
    /\ lastCall.op = "sendGamepadControl" /\ ~lastCall.open
    /\ messageQueue # <<>> /\ messageQueue[Len(messageQueue)] = lastCall.id
    /\ wire = <<>>

(* C33: in a call whose drain stops at its k-th write, the new message is  *)
(* still written after the drain: when the write succeeds its frame        *)
(* follows the k - 1 drained frames on the wire while the messages from    *)
(* the k-th on stay queued, and when it throws the new message goes to     *)
(* the tail of the queue behind them.                                      *)
C33_NewMessageTriedAfterAbortedDrain ==
    [][(OpenSendStep /\ lastCall'.drainFail > 0)
         => LET k == lastCall'.drainFail
                n == Len(messageQueue)
                left == SubSeq(messageQueue, k, n)
                drained == wire \o GamepadFrames(SubSeq(messageQueue, 1, k - 1))
            IN  IF lastCall'.sendFail
                THEN /\ messageQueue' = Append(left, nextMsg)
                     /\ wire' = drained
                ELSE /\ messageQueue' = left
                     /\ wire' = Append(drained, Frame("gamepad_control", nextMsg))]_vars

(* C33 witness: the drain of two queued messages threw on its first write  *)
(* and the new message was written: it is on the wire, the two older ones  *)
(* are still queued.                                                       *)
C33_Witness ==
    /\ lastCall.op = "sendGamepadControl"
    /\ lastCall.open /\ lastCall.queued = 2
    /\ lastCall.drainFail = 1 /\ ~lastCall.sendFail
    /\ wire = GamepadFrames(<<3>>)
    /\ messageQueue = <<1, 2>>

----------------------------------------------------------------------------
(* Claims about the poller and the throttler together *)

(* C34: after every poll iteration, connected or disconnected              *)
(* notification and initial scan, and so in every state, the snapshot's    *)
(* connected flag is true exactly when a device index is bound.            *)
C34_ConnectedIffBound ==
    gamepadState.connected <=> (gamepadIndex # NoIndex)

(* C34 witness: a disconnected notification for a device other than the    *)
(* bound one was heard: the index stays bound and the flag stays true.     *)
C34_Witness ==
    /\ lastStep.op = "gamepaddisconnected"
    /\ lastStep.bound # NoIndex
    /\ lastStep.index # lastStep.bound
    /\ gamepadIndex = lastStep.bound
    /\ gamepadState.connected

(* C35: an effect run whose snapshot has connected = false builds no       *)
(* command and neither sends nor queues anything; the loss of the bound    *)
(* device clears only the flag, the stick, trigger and button values stay; *)
(* a command is sent only while a device is bound.                         *)
C35_NothingSentWhileDisconnected ==
    [][/\ (lastTick' # lastTick /\ ~gamepadState.connected)
            => /\ ~lastTick'.sent /\ lastTick'.command = <<>>
               /\ UNCHANGED <<serviceVars, lastUpdateTime, previousState>>
       /\ (gamepadState.connected /\ ~gamepadState'.connected)
            => gamepadState' = [gamepadState EXCEPT !.connected = FALSE]
       /\ (nextMsg' # nextMsg)
            => (gamepadState.connected /\ gamepadIndex # NoIndex)]_vars

(* C35 witness: the bound device was lost with its sticks deflected; the   *)
(* effect ran on that snapshot a full interval after the last command and  *)
(* sent nothing.                                                           *)
C35_Witness ==
    /\ ~gamepadState.connected /\ gamepadIndex = NoIndex
    /\ lastTick.snapshot = <<Returned(gamepadState)>>
    /\ lastTick.snapshot[1].leftStick.x = 500
    /\ ~lastTick.sent
    /\ previousState # <<>>
    /\ ~TooSoon(lastTick.now, lastUpdateTime)
    /\ messageQueue = <<1>>

(* C36: the first effect run with a connected snapshot, no command having  *)
(* been sent before, sends a command whatever the sticks, triggers and     *)
(* buttons are; a connected run past the time gate is suppressed only when *)
(* a previously sent snapshot exists and the snapshot is at rest.          *)
C36_FirstConnectedTickSends ==
    [][/\ (lastTick' # lastTick /\ lastTick'.connected /\ previousState = <<>>)
            => /\ lastTick'.sent
               /\ lastTick'.command = <<controlMessage(lastTick'.snapshot[1])>>
               /\ nextMsg' = nextMsg + 1
               /\ previousState' = lastTick'.snapshot
       /\ (/\ lastTick' # lastTick /\ lastTick'.connected /\ ~lastTick'.sent
           /\ ~TooSoon(lastTick'.now, lastUpdateTime))
            => (previousState # <<>> /\ AtRest(lastTick'.snapshot[1]))]_vars

(* C36 witness: the first command went out for a snapshot with every stick *)
(* and trigger at zero and no button pressed.                              *)
C36_Witness ==
    /\ lastTick.sent
    /\ nextMsg = 2 /\ lastCall.id = 1
    /\ previousState = lastTick.snapshot
    /\ StickAxes(lastTick.snapshot[1]) = <<0, 0, 0, 0>>
    /\ lastTick.snapshot[1].lt = 0 /\ lastTick.snapshot[1].rt = 0
    /\ \A b \in ButtonNames : ~lastTick.snapshot[1].buttons[b]
    /\ lastTick.command[1].gripper = "stay"
====
